---- MODULE Spec2Model ----
(***************************************************************************)
(* State verification of ingested ledger entries.                          *)
(*                                                                         *)
(*   exp/ingest/verify/main.go                       StateVerifier         *)
(*   exp/ingest/verify/memory_state_verify_temp_set.go                     *)
(*                                                   MemoryStateVerifyTempSet *)
(*   services/horizon/internal/expingest/verify.go   System.verifyState,   *)
(*                                                   transformEntry        *)
(*                                                                         *)
(* Spec   : a client driving one StateVerifier through Open, Add*, Verify, *)
(*          Close, with any StateVerifyTempSet backend.                    *)
(* SpecVS : one invocation of System.verifyState, which builds the         *)
(*          verifier on a MemoryStateVerifyTempSet, fills it from the      *)
(*          accounts_signers rows and runs Verify.                         *)
(* SpecRace : several invocations of System.verifyState on one System,    *)
(*          interleaved at the run-in-progress flag.                       *)
(* SpecSet : a MemoryStateVerifyTempSet whose methods are called directly, *)
(*          in any order.                                                  *)
(***************************************************************************)
EXTENDS Integers, Sequences, FiniteSets, TLC

VARIABLES
    m,                   \* MemoryStateVerifyTempSet.m : [isNil, keys]
    stateCorruptedError, \* StateVerifier.stateCorruptedError
    stream,              \* the entries StateVerifier.StateReader will yield
    pos,                 \* number of entries StateReader.Read has yielded
    backend,             \* which StateVerifyTempSet implementation is plugged in
    pc,                  \* position of the caller of the StateVerifier
    ret,                 \* what Verify returned : [ok, err]
    last,                \* the latest call on the verifier or its TempSet :
                         \* [op, entry, key, err]
    added,               \* entries for which StateVerifier.Add returned nil
    calls,               \* names of the TempSet methods called so far
    stateVerificationRunning, \* System.stateVerificationRunning
    rows,                \* accounts_signers rows StreamAccounts has yet to yield
    account,             \* addAccountsToStateVerifier's account : <<>> is nil
    deferred,            \* verifyState's deferred calls, the next to run first
    exit,                \* how verifyState ends : "nil", "error" or "panic"
    table,               \* the accounts_signers rows as StreamAccounts found them
    invocations,         \* position of each concurrent verifyState invocation
    tally                \* successful Add and Remove calls made directly on a
                         \* MemoryStateVerifyTempSet since its Open : [adds, removes]

\* the state of one StateVerifier, its reader and its temp set
verifierVars == <<m, stateCorruptedError, stream, pos, backend, ret, last,
                  added, calls>>

\* the state of System.verifyState around it
systemVars == <<stateVerificationRunning, rows, account, deferred, exit>>

\* what lies outside one StateVerifier and one verifyState invocation
envVars == <<table, invocations, tally>>

vars == <<verifierVars, pc, systemVars, envVars>>

----------------------------------------------------------------------------
(* Bounds *)

\* longest checkpoint stream handed to the StateReader
MaxStream == 3
\* most StateVerifier.Add calls a caller makes
MaxAdds == 2
\* most rows in accounts_signers
MaxRows == 3
\* verifyState invocations started on one System
NumInvocations == 3
\* keys a direct user of MemoryStateVerifyTempSet works with
MaxKey == 2
\* calls a direct user of MemoryStateVerifyTempSet makes
MaxCalls == 5

----------------------------------------------------------------------------
(* Errors.  An error value is modelled by its message. *)

NoError == "nil"
errKeyNotFound == "Key not found"
errKeyAlreadyExists == "Key already exists"
errEncoding == "xdr: encoding error"
errRead == "state reader error"
errBackend == "temp set backend error"

----------------------------------------------------------------------------
(* xdr.LedgerEntry.  Data.Account is a pointer: <<>> is nil, <<a>> points  *)
(* to the account entry a.  The payload of the other entry types is not    *)
(* looked at by any code modelled here.                                    *)

AccountEntry(id, thresholds, signers) ==
    [type |-> "account",
     account |-> <<[id |-> id, thresholds |-> thresholds, signers |-> signers]>>]

OtherEntry(type) == [type |-> type, account |-> <<>>]

\* xdr.LedgerEntry{} : the zero value has type 0 (account) and a nil pointer
EmptyEntry == [type |-> "account", account |-> <<>>]

Signer(key, weight) == [key |-> key, weight |-> weight]

\* AccountEntry.MasterKeyWeight : Thresholds[0]
MasterKeyWeight(a) == a.thresholds[1]

\* xdr.SortSignersByKey : the signers in ascending key order
RECURSIVE SortSignersByKey(_)
SortSignersByKey(signers) ==
    IF Len(signers) <= 1 THEN signers
    ELSE LET i == CHOOSE i \in 1..Len(signers) :
                     \A j \in 1..Len(signers) :
                         /\ signers[i].key <= signers[j].key
                         /\ (signers[i].key = signers[j].key => i <= j)
             rest == [k \in 1..(Len(signers) - 1) |->
                         IF k < i THEN signers[k] ELSE signers[k + 1]]
         IN  <<signers[i]>> \o SortSignersByKey(rest)

RECURSIVE SignerBytes(_)
SignerBytes(signers) ==
    IF signers = <<>> THEN <<>>
    ELSE <<Head(signers).key, Head(signers).weight>> \o SignerBytes(Tail(signers))

TypeCode(type) ==
    CASE type = "account" -> 0
      [] type = "trustline" -> 1
      [] type = "offer" -> 2
      [] type = "data" -> 3

\* entry.MarshalBinary : the XDR bytes, or an error for an entry that has no
\* encoding (a nil union arm, a signer key of no known key type)
MarshalBinary(entry) ==
    IF entry.type # "account" THEN [bytes |-> <<TypeCode(entry.type)>>, err |-> NoError]
    ELSE IF entry.account = <<>> THEN [bytes |-> <<>>, err |-> errEncoding]
    ELSE LET a == entry.account[1] IN
         IF \E i \in 1..Len(a.signers) : a.signers[i].key = 0
         THEN [bytes |-> <<>>, err |-> errEncoding]
         ELSE [bytes |-> <<TypeCode(entry.type), a.id>> \o a.thresholds
                          \o <<Len(a.signers)>> \o SignerBytes(a.signers),
               err |-> NoError]

\* base64(sha256.Sum256(bytes)) : a digest, taken to be collision free; the
\* bytes are folded into one number, a digit per byte
RECURSIVE Sum256(_)
Sum256(bytes) ==
    IF bytes = <<>> THEN 1
    ELSE Sum256(SubSeq(bytes, 1, Len(bytes) - 1)) * 5 + bytes[Len(bytes)] + 1

\* StateVerifier.entryToKey
entryToKey(entry) ==
    LET xdrEncoded == MarshalBinary(entry) IN
    IF xdrEncoded.err # NoError THEN [key |-> 0, err |-> xdrEncoded.err]
    ELSE [key |-> Sum256(xdrEncoded.bytes), err |-> NoError]

\* expingest.transformEntry
transformEntry(entry) ==
    IF entry.type = "account"
    THEN LET accountEntry == entry.account[1] IN
         IF MasterKeyWeight(accountEntry) = 0 /\ Len(accountEntry.signers) = 0
         THEN [ignore |-> TRUE, entry |-> EmptyEntry]
         ELSE [ignore |-> FALSE,
               entry |-> AccountEntry(accountEntry.id,
                                      <<accountEntry.thresholds[1], 0, 0, 0>>,
                                      SortSignersByKey(accountEntry.signers))]
    ELSE [ignore |-> TRUE, entry |-> EmptyEntry]

----------------------------------------------------------------------------
(* Inputs *)

\* entries a checkpoint stream is made of
StreamEntries ==
    {AccountEntry(1, <<1, 0, 0, 0>>, <<>>),
     AccountEntry(1, <<1, 1, 0, 0>>, <<>>),
     AccountEntry(1, <<0, 1, 0, 0>>, <<>>),
     AccountEntry(2, <<0, 0, 0, 0>>, <<Signer(3, 1), Signer(1, 1)>>),
     AccountEntry(2, <<0, 0, 0, 0>>, <<Signer(0, 1)>>),
     OtherEntry("trustline")}

\* entries a caller hands to StateVerifier.Add
LocalEntries ==
    {AccountEntry(1, <<1, 0, 0, 0>>, <<>>),
     AccountEntry(1, <<1, 1, 0, 0>>, <<>>),
     AccountEntry(2, <<0, 0, 0, 0>>, <<Signer(1, 1), Signer(3, 1)>>),
     EmptyEntry}

Streams == UNION {[1..n -> StreamEntries] : n \in 0..MaxStream}

\* entries of the history archive verifyState reads
ArchiveEntries ==
    {AccountEntry(1, <<1, 1, 0, 0>>, <<>>),
     AccountEntry(2, <<0, 0, 0, 0>>, <<Signer(3, 1), Signer(1, 1)>>),
     AccountEntry(2, <<0, 0, 0, 0>>, <<Signer(0, 1)>>),
     OtherEntry("trustline")}

ArchiveStreams == UNION {[1..n -> ArchiveEntries] : n \in 0..MaxStream}

\* history.AccountSigner : a row of accounts_signers; the row whose signer
\* is the account itself carries the master weight
AccountSignerRow == [account : 1..2, signer : 1..3, weight : {1}]

\* what StreamAccounts can yield: rows in ascending account order, no
\* (account, signer) pair twice
AccountSignerRows ==
    {r \in UNION {[1..n -> AccountSignerRow] : n \in 0..MaxRows} :
        /\ \A i \in 1..(Len(r) - 1) : r[i].account <= r[i + 1].account
        /\ \A i, j \in 1..Len(r) :
              (i # j) => <<r[i].account, r[i].signer>> # <<r[j].account, r[j].signer>>}

Backends == {"memory", "other"}

----------------------------------------------------------------------------
(* MemoryStateVerifyTempSet *)

NilMap == [isNil |-> TRUE, keys |-> {}]

\* Open
MemOpen(s) == [m |-> [isNil |-> FALSE, keys |-> {}], err |-> NoError]

\* MemAdd allocating the map when it is nil
MemAddAllocates(s, key) ==
    IF key \in s.keys THEN [m |-> s, err |-> errKeyAlreadyExists, panic |-> FALSE]
    ELSE [m |-> [isNil |-> FALSE, keys |-> s.keys \cup {key}], err |-> NoError,
          panic |-> FALSE]

\* MemAdd without the lookup that rejects a key already present
MemAddOverwrite(s, key) ==
    IF s.isNil THEN [m |-> s, err |-> NoError, panic |-> TRUE]
    ELSE [m |-> [s EXCEPT !.keys = @ \cup {key}], err |-> NoError, panic |-> FALSE]

\* Add ; writing to a nil map panics
MemAdd(s, key) ==
    IF key \in s.keys THEN [m |-> s, err |-> errKeyAlreadyExists, panic |-> FALSE]
    ELSE IF s.isNil THEN [m |-> s, err |-> NoError, panic |-> TRUE]
    ELSE [m |-> [s EXCEPT !.keys = @ \cup {key}], err |-> NoError, panic |-> FALSE]

\* MemRemove without the lookup: removing an absent key succeeds
MemRemoveTolerant(s, key) == [m |-> [s EXCEPT !.keys = @ \ {key}], err |-> NoError]

\* MemRemove without the delete
MemRemoveKeepsKey(s, key) ==
    IF key \notin s.keys THEN [m |-> s, err |-> errKeyNotFound]
    ELSE [m |-> s, err |-> NoError]

\* Remove
MemRemove(s, key) ==
    IF key \notin s.keys THEN [m |-> s, err |-> errKeyNotFound]
    ELSE [m |-> [s EXCEPT !.keys = @ \ {key}], err |-> NoError]

\* MemIsEmpty that does not look at the map
MemIsEmptyAlways(s) == [empty |-> TRUE, err |-> NoError]

\* IsEmpty
MemIsEmpty(s) == [empty |-> Cardinality(s.keys) = 0, err |-> NoError]

\* Close
MemClose(s) == [m |-> NilMap, err |-> NoError]

----------------------------------------------------------------------------
(* StateVerifyTempSet : the interface.  The "memory" backend is            *)
(* MemoryStateVerifyTempSet; any other backend keeps the same set and may  *)
(* also fail a call with an error of its own, leaving the set as it was.   *)

TempSetOpen(s) ==
    {MemOpen(s)} \cup
    (IF backend = "other" THEN {[m |-> s, err |-> errBackend]} ELSE {})

TempSetAdd(s, key) ==
    {MemAdd(s, key)} \cup
    (IF backend = "other" THEN {[m |-> s, err |-> errBackend, panic |-> FALSE]} ELSE {})

TempSetRemove(s, key) ==
    {MemRemove(s, key)} \cup
    (IF backend = "other" THEN {[m |-> s, err |-> errBackend]} ELSE {})

TempSetIsEmpty(s) ==
    {MemIsEmpty(s)} \cup
    (IF backend = "other" THEN {[empty |-> FALSE, err |-> errBackend]} ELSE {})

TempSetClose(s) ==
    {MemClose(s)} \cup
    (IF backend = "other" THEN {[m |-> NilMap, err |-> errBackend]} ELSE {})

NumCalls(name) == Cardinality({i \in 1..Len(calls) : calls[i] = name})

----------------------------------------------------------------------------
(* StateVerifier *)

NoStateError == [msg |-> "nil", entry |-> <<>>, transformed |-> <<>>, key |-> 0]

\* CouldNotFindEntry printing the entry as read in both places
CouldNotFindEntryAsRead(preTransformEntry, entry, key) ==
    [msg |-> "Could not find entry",
     entry |-> MarshalBinary(preTransformEntry).bytes,
     transformed |-> MarshalBinary(preTransformEntry).bytes,
     key |-> key]

\* errors.Errorf("Could not find entry %s (transformed = %s, key = %s) in
\* added entries", ...) : the message names the two encodings and the key
CouldNotFindEntry(preTransformEntry, entry, key) ==
    [msg |-> "Could not find entry",
     entry |-> MarshalBinary(preTransformEntry).bytes,
     transformed |-> MarshalBinary(entry).bytes,
     key |-> key]

SomeEntriesNotFound ==
    [msg |-> "Some entries added in Add has not been found in history archives",
     entry |-> <<>>, transformed |-> <<>>, key |-> 0]

NoReturn == [ok |-> TRUE, err |-> "none"]

Call(op, entry, key, err) == [op |-> op, entry |-> entry, key |-> key, err |-> err]

\* VerifyTransform without the continue on ignore
VerifyTransformNoSkip(entry) == [transformEntry(entry) EXCEPT !.ignore = FALSE]

\* Verify, lines 111-117 : TransformFunction is set (to transformEntry); an
\* ignored entry is skipped
VerifyTransform(entry) == transformEntry(entry)

\* VerifyAfterRemove without the errKeyNotFound case: every error of Remove
\* is returned to the caller
VerifyAfterRemoveLeak(preTransformEntry, entry, key, err, old) ==
    IF err # NoError
    THEN [done |-> TRUE, stateCorruptedError |-> old,
          ret |-> [ok |-> TRUE, err |-> err]]
    ELSE [done |-> FALSE, stateCorruptedError |-> old, ret |-> [ok |-> TRUE, err |-> "none"]]

\* VerifyAfterRemove recording the entry not found and going on with the loop
VerifyAfterRemoveGoesOn(preTransformEntry, entry, key, err, old) ==
    IF err # NoError
    THEN IF err = errKeyNotFound
         THEN [done |-> FALSE,
               stateCorruptedError |-> CouldNotFindEntry(preTransformEntry, entry, key),
               ret |-> [ok |-> FALSE, err |-> NoError]]
         ELSE [done |-> TRUE, stateCorruptedError |-> old,
               ret |-> [ok |-> TRUE, err |-> err]]
    ELSE [done |-> FALSE, stateCorruptedError |-> old, ret |-> NoReturn]

\* Verify, after TempSet.Remove returned err : what Verify stores and
\* returns; done is FALSE when the loop goes on
VerifyAfterRemove(preTransformEntry, entry, key, err, old) ==
    IF err # NoError
    THEN IF err = errKeyNotFound
         THEN [done |-> TRUE,
               stateCorruptedError |-> CouldNotFindEntry(preTransformEntry, entry, key),
               ret |-> [ok |-> FALSE, err |-> NoError]]
         ELSE [done |-> TRUE, stateCorruptedError |-> old,
               ret |-> [ok |-> TRUE, err |-> err]]
    ELSE [done |-> FALSE, stateCorruptedError |-> old, ret |-> NoReturn]

\* VerifyAfterIsEmpty reporting leftover keys as an error
VerifyAfterIsEmptyLeftoverError(empty, err, old) ==
    IF err # NoError
    THEN [stateCorruptedError |-> SomeEntriesNotFound,
          ret |-> [ok |-> TRUE, err |-> err]]
    ELSE IF ~empty
    THEN [stateCorruptedError |-> SomeEntriesNotFound,
          ret |-> [ok |-> TRUE, err |-> SomeEntriesNotFound.msg]]
    ELSE [stateCorruptedError |-> old, ret |-> [ok |-> TRUE, err |-> NoError]]

\* Verify, after TempSet.IsEmpty returned (empty, err)
VerifyAfterIsEmpty(empty, err, old) ==
    IF err # NoError
    THEN [stateCorruptedError |-> SomeEntriesNotFound,
          ret |-> [ok |-> TRUE, err |-> err]]
    ELSE [stateCorruptedError |-> old, ret |-> [ok |-> empty, err |-> NoError]]

\* no call has been made directly on a MemoryStateVerifyTempSet
NoTally == [adds |-> 0, removes |-> 0]

Init ==
    /\ m = NilMap
    /\ stateCorruptedError = NoStateError
    /\ stream \in Streams
    /\ pos = 0
    /\ backend \in Backends
    /\ pc = "new"
    /\ ret = NoReturn
    /\ last = Call("none", EmptyEntry, 0, NoError)
    /\ added = {}
    /\ calls = <<>>
    /\ stateVerificationRunning = FALSE
    /\ rows = <<>>
    /\ account = <<>>
    /\ deferred = <<>>
    /\ exit = "none"
    /\ table = <<>>
    /\ invocations = <<>>
    /\ tally = NoTally

\* StateVerifier.Open
Open ==
    /\ pc = "new"
    /\ \E r \in TempSetOpen(m) :
          /\ m' = r.m
          /\ last' = Call("Open", EmptyEntry, 0, r.err)
          /\ pc' = IF r.err = NoError THEN "opened" ELSE "openFailed"
    /\ calls' = Append(calls, "Open")
    /\ UNCHANGED <<envVars, stateCorruptedError, stream, pos, backend, ret, added, systemVars>>

\* StateVerifier.Add : the outcomes of Add(entry) on the temp set s; called
\* tells whether TempSet.Add was reached
VerifierAdd(s, entry) ==
    LET k == entryToKey(entry) IN
    IF k.err # NoError
    THEN {[m |-> s, err |-> k.err, key |-> 0, called |-> FALSE, panic |-> FALSE]}
    ELSE {[m |-> r.m, err |-> r.err, key |-> k.key, called |-> TRUE, panic |-> r.panic] :
             r \in TempSetAdd(s, k.key)}

\* a caller's StateVerifier.Add, entryToKey failing
AddKeyError ==
    /\ pc = "opened"
    /\ \E entry \in LocalEntries :
          \E r \in VerifierAdd(m, entry) :
             /\ ~r.called
             /\ last' = Call("Add", entry, r.key, r.err)
    /\ UNCHANGED <<envVars, m, stateCorruptedError, stream, pos, backend, pc, ret, added, calls, systemVars>>

\* a caller's StateVerifier.Add, reaching TempSet.Add
Add ==
    /\ pc = "opened"
    /\ NumCalls("Add") < MaxAdds
    /\ \E entry \in LocalEntries :
          \E r \in VerifierAdd(m, entry) :
             /\ r.called
             /\ ~r.panic
             /\ m' = r.m
             /\ last' = Call("Add", entry, r.key, r.err)
             /\ added' = IF r.err = NoError THEN added \cup {entry} ELSE added
    /\ calls' = Append(calls, "Add")
    /\ UNCHANGED <<envVars, stateCorruptedError, stream, pos, backend, pc, ret, systemVars>>

InVerify == pc \in {"opened", "verifying"}

\* Verify : StateReader.Read fails with an error that is not EOF
VerifyReadError ==
    /\ InVerify
    /\ ret' = [ok |-> TRUE, err |-> errRead]
    /\ pc' = "verified"
    /\ UNCHANGED <<envVars, m, stateCorruptedError, stream, pos, backend, last, added, calls, systemVars>>

\* Verify : one turn of the loop on an entry TransformFunction ignores
VerifyIgnore ==
    /\ InVerify
    /\ pos < Len(stream)
    /\ VerifyTransform(stream[pos + 1]).ignore
    /\ pos' = pos + 1
    /\ pc' = "verifying"
    /\ UNCHANGED <<envVars, m, stateCorruptedError, stream, backend, ret, last, added, calls, systemVars>>

\* Verify : one turn of the loop, entryToKey failing
VerifyKeyError ==
    /\ InVerify
    /\ pos < Len(stream)
    /\ LET t == VerifyTransform(stream[pos + 1])
           k == entryToKey(t.entry) IN
       /\ ~t.ignore
       /\ k.err # NoError
       /\ ret' = [ok |-> TRUE, err |-> k.err]
    /\ pos' = pos + 1
    /\ pc' = "verified"
    /\ UNCHANGED <<envVars, m, stateCorruptedError, stream, backend, last, added, calls, systemVars>>

\* Verify : one turn of the loop, reaching TempSet.Remove
VerifyRemove ==
    /\ InVerify
    /\ pos < Len(stream)
    /\ LET preTransformEntry == stream[pos + 1]
           t == VerifyTransform(preTransformEntry)
           k == entryToKey(t.entry) IN
       /\ ~t.ignore
       /\ k.err = NoError
       /\ \E r \in TempSetRemove(m, k.key) :
             LET v == VerifyAfterRemove(preTransformEntry, t.entry, k.key, r.err,
                                        stateCorruptedError) IN
             /\ m' = r.m
             /\ last' = Call("Remove", t.entry, k.key, r.err)
             /\ stateCorruptedError' = v.stateCorruptedError
             /\ ret' = v.ret
             /\ pc' = IF v.done THEN "verified" ELSE "verifying"
    /\ pos' = pos + 1
    /\ calls' = Append(calls, "Remove")
    /\ UNCHANGED <<envVars, stream, backend, added, systemVars>>

\* Verify : StateReader.Read returns EOF, then TempSet.IsEmpty
VerifyIsEmpty ==
    /\ InVerify
    /\ pos = Len(stream)
    /\ \E r \in TempSetIsEmpty(m) :
          LET v == VerifyAfterIsEmpty(r.empty, r.err, stateCorruptedError) IN
          /\ last' = Call("IsEmpty", EmptyEntry, 0, r.err)
          /\ stateCorruptedError' = v.stateCorruptedError
          /\ ret' = v.ret
    /\ pc' = "verified"
    /\ calls' = Append(calls, "IsEmpty")
    /\ UNCHANGED <<envVars, m, stream, pos, backend, added, systemVars>>

\* StateVerifier.Close that also clears the diagnosis
CloseClearsStateError ==
    /\ pc \in {"opened", "openFailed", "verified"}
    /\ \E r \in TempSetClose(m) :
          /\ m' = r.m
          /\ last' = Call("Close", EmptyEntry, 0, r.err)
    /\ pc' = "closed"
    /\ calls' = Append(calls, "Close")
    /\ stateCorruptedError' = NoStateError
    /\ UNCHANGED <<envVars, stream, pos, backend, ret, added, systemVars>>

\* StateVerifier.Close
Close ==
    /\ pc \in {"opened", "openFailed", "verified"}
    /\ \E r \in TempSetClose(m) :
          /\ m' = r.m
          /\ last' = Call("Close", EmptyEntry, 0, r.err)
    /\ pc' = "closed"
    /\ calls' = Append(calls, "Close")
    /\ UNCHANGED <<envVars, stateCorruptedError, stream, pos, backend, ret, added, systemVars>>

Next ==
    \/ Open
    \/ AddKeyError
    \/ Add
    \/ VerifyReadError
    \/ VerifyIgnore
    \/ VerifyKeyError
    \/ VerifyRemove
    \/ VerifyIsEmpty
    \/ Close

Spec == Init /\ [][Next]_vars

----------------------------------------------------------------------------
(* System.verifyState and addAccountsToStateVerifier *)

InitVS ==
    /\ m = NilMap
    /\ stateCorruptedError = NoStateError
    /\ stream \in ArchiveStreams
    /\ pos = 0
    /\ backend = "memory"
    /\ pc = "idle"
    /\ ret = NoReturn
    /\ last = Call("none", EmptyEntry, 0, NoError)
    /\ added = {}
    /\ calls = <<>>
    /\ stateVerificationRunning \in BOOLEAN
    /\ rows \in AccountSignerRows
    /\ account = <<>>
    /\ deferred = <<>>
    /\ exit = "none"
    /\ table = rows
    /\ invocations = <<>>
    /\ tally = NoTally

\* verifyState returns, or panics : its deferred calls run next
Exit(how) == exit' = how /\ pc' = "exiting"

\* defer verifier.Close() with Close called once more at the end
DeferVerifierCloseTwice(d) == <<"Close">> \o d \o <<"Close">>

\* verifier.Close() is not deferred
DeferVerifierCloseForgotten(d) == d

\* defer verifier.Close() : deferred calls run last registered first
DeferVerifierClose(d) == <<"Close">> \o d

\* verifyState, lines 17-20 : a verification is already running
VerifyStateBusy ==
    /\ pc = "idle"
    /\ stateVerificationRunning
    /\ exit' = "nil"
    /\ pc' = "finished"
    /\ UNCHANGED <<envVars, verifierVars, stateVerificationRunning, rows, account, deferred>>

\* verifyState, lines 22-30 : take the flag, defer its release
VerifyStateEnter ==
    /\ pc = "idle"
    /\ ~stateVerificationRunning
    /\ stateVerificationRunning' = TRUE
    /\ deferred' = <<"reset">>
    /\ pc' = "prepare"
    /\ UNCHANGED <<envVars, verifierVars, rows, account, exit>>

\* verifyState, lines 32-76 : transaction, checkpoint test, state reader
VerifyStatePrepare ==
    /\ pc = "prepare"
    /\ \E outcome \in {"BeginTx error", "GetLastLedger error", "not a checkpoint",
                       "MakeSingleLedgerStateReader error", "ok"} :
          CASE outcome = "ok" -> pc' = "open" /\ exit' = exit
            [] outcome = "not a checkpoint" -> Exit("nil")
            [] OTHER -> Exit("error")
    /\ UNCHANGED <<envVars, verifierVars, stateVerificationRunning, rows, account, deferred>>

\* verifyState, lines 78-82 : verifier.Open, defer verifier.Close
VerifyStateOpen ==
    /\ pc = "open"
    /\ \E r \in TempSetOpen(m) :
          /\ m' = r.m
          /\ last' = Call("Open", EmptyEntry, 0, r.err)
          /\ IF r.err # NoError
             THEN Exit("error") /\ deferred' = deferred
             ELSE /\ deferred' = DeferVerifierClose(deferred)
                  /\ pc' = "streamAccounts"
                  /\ exit' = exit
    /\ calls' = Append(calls, "Open")
    /\ UNCHANGED <<envVars, stateCorruptedError, stream, pos, backend, ret, added,
                   stateVerificationRunning, rows, account>>

\* addAccountsToStateVerifier, lines 109-115 : q.StreamAccounts
AddAccountsStreamAccounts ==
    /\ pc = "streamAccounts"
    /\ \/ Exit("error")
       \/ pc' = "rows" /\ exit' = exit
    /\ UNCHANGED <<envVars, verifierVars, stateVerificationRunning, rows, account, deferred>>

\* &xdr.AccountEntry{AccountId: ..., Signers: []xdr.Signer{}}
NewAccount(id) == [id |-> id, thresholds |-> <<0, 0, 0, 0>>, signers |-> <<>>]

\* addAccountsToStateVerifier, lines 146-158 : the row is the master key or
\* a signer of the account
ApplyRow(a, row) ==
    IF row.account = row.signer
    THEN [a EXCEPT !.thresholds = <<row.weight, 0, 0, 0>>]
    ELSE [a EXCEPT !.signers = Append(@, Signer(row.signer, row.weight))]

\* xdr.LedgerEntry{Data: {Type: LedgerEntryTypeAccount, Account: account}}
EntryOf(acc) == [type |-> "account", account |-> acc]

\* addAccountsToStateVerifier : rows.Scan or rows.Err fails
AddAccountsRowsError ==
    /\ pc = "rows"
    /\ Exit("error")
    /\ UNCHANGED <<envVars, verifierVars, stateVerificationRunning, rows, account, deferred>>

\* addAccountsToStateVerifier, lines 117-159 : one row of the account the
\* loop is collecting, or the first row
AddAccountsSameAccount ==
    /\ pc = "rows"
    /\ rows # <<>>
    /\ LET row == Head(rows) IN
       /\ IF account = <<>> THEN TRUE ELSE account[1].id = row.account
       /\ account' = <<ApplyRow(IF account = <<>> THEN NewAccount(row.account)
                                ELSE account[1], row)>>
    /\ rows' = Tail(rows)
    /\ UNCHANGED <<envVars, verifierVars, pc, stateVerificationRunning, deferred, exit>>

\* addAccountsToStateVerifier, lines 117-159 : the first row of another
\* account; the account collected so far is added, its signers sorted
AddAccountsNextAccount ==
    /\ pc = "rows"
    /\ rows # <<>>
    /\ LET row == Head(rows)
           sorted == [account[1] EXCEPT !.signers = SortSignersByKey(@)]
           entry == EntryOf(<<sorted>>)
       IN
       /\ account # <<>>
       /\ account[1].id # row.account
       /\ \E r \in VerifierAdd(m, entry) :
             /\ ~r.panic
             /\ m' = r.m
             /\ last' = Call("Add", entry, r.key, r.err)
             /\ calls' = IF r.called THEN Append(calls, "Add") ELSE calls
             /\ added' = IF r.err = NoError THEN added \cup {entry} ELSE added
             /\ IF r.err # NoError
                THEN /\ Exit("error")
                     /\ account' = <<sorted>>
                     /\ rows' = rows
                ELSE /\ account' = <<ApplyRow(NewAccount(row.account), row)>>
                     /\ rows' = Tail(rows)
                     /\ UNCHANGED <<pc, exit>>
    /\ UNCHANGED <<envVars, stateCorruptedError, stream, pos, backend, ret,
                   stateVerificationRunning, deferred>>

\* addAccountsToStateVerifier, lines 161-177 : after the loop the account
\* collected last is added as it stands
AddAccountsLast ==
    /\ pc = "rows"
    /\ rows = <<>>
    /\ LET entry == EntryOf(account) IN
       \E r \in VerifierAdd(m, entry) :
          /\ ~r.panic
          /\ m' = r.m
          /\ last' = Call("Add", entry, r.key, r.err)
          /\ calls' = IF r.called THEN Append(calls, "Add") ELSE calls
          /\ added' = IF r.err = NoError THEN added \cup {entry} ELSE added
          /\ IF r.err # NoError
             THEN Exit("error")
             ELSE pc' = "verifying" /\ exit' = exit
    /\ UNCHANGED <<envVars, stateCorruptedError, stream, pos, backend, ret,
                   stateVerificationRunning, rows, account, deferred>>

\* verifyState, lines 92-105 : what verifyState does with Verify's result
AfterVerifyExit(ok, err) ==
    IF err # NoError THEN "error"
    ELSE IF ~ok THEN "panic"
    ELSE "nil"

VerifyStateAfterVerify ==
    /\ pc = "verified"
    /\ Exit(AfterVerifyExit(ret.ok, ret.err))
    /\ UNCHANGED <<envVars, verifierVars, stateVerificationRunning, rows, account, deferred>>

\* verifyState, line 82 : the deferred verifier.Close()
VerifyStateDeferredClose ==
    /\ pc = "exiting"
    /\ deferred # <<>>
    /\ Head(deferred) = "Close"
    /\ \E r \in TempSetClose(m) :
          /\ m' = r.m
          /\ last' = Call("Close", EmptyEntry, 0, r.err)
    /\ calls' = Append(calls, "Close")
    /\ deferred' = Tail(deferred)
    /\ pc' = IF Tail(deferred) = <<>> THEN "finished" ELSE "exiting"
    /\ UNCHANGED <<envVars, stateCorruptedError, stream, pos, backend, ret, added,
                   stateVerificationRunning, rows, account, exit>>

\* the deferred func without s.stateVerificationRunning = false
VerifyStateDeferredResetKeepsFlag ==
    /\ pc = "exiting"
    /\ deferred # <<>>
    /\ Head(deferred) = "reset"
    /\ deferred' = Tail(deferred)
    /\ pc' = IF Tail(deferred) = <<>> THEN "finished" ELSE "exiting"
    /\ UNCHANGED <<envVars, verifierVars, stateVerificationRunning, rows, account, exit>>

\* verifyState, lines 26-30 : the deferred rollback and release of the flag
VerifyStateDeferredReset ==
    /\ pc = "exiting"
    /\ deferred # <<>>
    /\ Head(deferred) = "reset"
    /\ stateVerificationRunning' = FALSE
    /\ deferred' = Tail(deferred)
    /\ pc' = IF Tail(deferred) = <<>> THEN "finished" ELSE "exiting"
    /\ UNCHANGED <<envVars, verifierVars, rows, account, exit>>

NextVS ==
    \/ VerifyStateBusy
    \/ VerifyStateEnter
    \/ VerifyStatePrepare
    \/ VerifyStateOpen
    \/ AddAccountsStreamAccounts
    \/ AddAccountsRowsError
    \/ AddAccountsSameAccount
    \/ AddAccountsNextAccount
    \/ AddAccountsLast
    \/ VerifyReadError
    \/ VerifyIgnore
    \/ VerifyKeyError
    \/ VerifyRemove
    \/ VerifyIsEmpty
    \/ VerifyStateAfterVerify
    \/ VerifyStateDeferredClose
    \/ VerifyStateDeferredReset

SpecVS == InitVS /\ [][NextVS]_vars

----------------------------------------------------------------------------
(* Vocabulary of the properties *)

\* StateVerifier.StateError
StateError == stateCorruptedError

VerifyReturned == ret # NoReturn

\* Verify returned and Close has not run yet
AfterVerify == pc = "verified"

\* the fingerprints of the entries added
AddedKeys == {entryToKey(e).key : e \in added}

NotIgnored(e) == ~transformEntry(e).ignore

\* the normalized form of stream entry i, and its fingerprint
Normalized(i) == transformEntry(stream[i]).entry
KeyOf(i) == entryToKey(Normalized(i))

\* the stream positions that take part in the verification
Relevant == {i \in 1..Len(stream) : NotIgnored(stream[i])}

\* Verify met no infrastructure failure: it returned a nil error
NoInfrastructureError == VerifyReturned /\ ret.err = NoError

\* stream entry i is not ignored and its fingerprint was never added
NeverAdded(i) ==
    /\ i \in Relevant
    /\ KeyOf(i).err = NoError
    /\ KeyOf(i).key \notin AddedKeys

\* stream entry i is not ignored and TempSet.Remove cannot find its
\* fingerprint: it was never added, or an earlier entry already removed it
Unmatched(i) ==
    /\ i \in Relevant
    /\ KeyOf(i).err = NoError
    /\ \/ KeyOf(i).key \notin AddedKeys
       \/ \E j \in Relevant : j < i /\ KeyOf(j) = KeyOf(i)

\* the first never-added, and the first unmatched, entry of the stream
FirstNeverAdded ==
    CHOOSE i \in 1..Len(stream) : NeverAdded(i) /\ \A j \in 1..(i - 1) : ~NeverAdded(j)
FirstUnmatched ==
    CHOOSE i \in 1..Len(stream) : Unmatched(i) /\ \A j \in 1..(i - 1) : ~Unmatched(j)

\* the diagnosis is the one Verify writes for stream entry i
DiagnosisOf(i) ==
    /\ StateError.key = KeyOf(i).key
    /\ StateError.entry = MarshalBinary(stream[i]).bytes
    /\ StateError.transformed = MarshalBinary(Normalized(i)).bytes

\* the non-ignored normalized stream entries are exactly the added entries,
\* each once
StreamIsPermutationOfAdded ==
    /\ \A i \in Relevant : Normalized(i) \in added
    /\ \A e \in added : Cardinality({i \in Relevant : Normalized(i) = e}) = 1

----------------------------------------------------------------------------
(* C1 .. C9 : StateVerifier.Verify under Spec *)

\* C1 Order independence: with the in-memory temp set and a reader that does
\* not fail, whenever the non-ignored normalized entries of the stream are, in
\* any order, exactly the added entries (each once), Verify returns
\* (true, nil), StateError() is nil and the temp set is empty.
C1_OrderIndependence ==
    (/\ AfterVerify
     /\ backend = "memory"
     /\ ret.err # errRead
     /\ StreamIsPermutationOfAdded)
    => /\ ret = [ok |-> TRUE, err |-> NoError]
       /\ StateError = NoStateError
       /\ m.keys = {}

\* C1 witness: two entries were added and the stream delivers them in the
\* other order than a sort by account would, one of them in a form that
\* normalization has to change.
C1_Witness ==
    /\ AfterVerify
    /\ backend = "memory"
    /\ StreamIsPermutationOfAdded
    /\ Cardinality(added) = 2
    /\ Len(stream) = 3
    /\ stream[1].type = "account" /\ stream[1].account[1].id = 2
    /\ stream[1] \notin added
    /\ ret = [ok |-> TRUE, err |-> NoError]

\* C2 as stated: if Verify meets no infrastructure error and the stream holds
\* a non-ignored entry whose fingerprint was never added, Verify returns
\* (false, nil) and the diagnosis names the first such entry of the stream.
C2_AsStated ==
    (/\ NoInfrastructureError
     /\ \E i \in 1..Len(stream) : NeverAdded(i))
    => /\ ret = [ok |-> FALSE, err |-> NoError]
       /\ StateError # NoStateError
       /\ DiagnosisOf(FirstNeverAdded)

\* C2 amended: if Verify meets no infrastructure error and the stream holds a
\* non-ignored entry whose fingerprint was never added, Verify returns
\* (false, nil) and the diagnosis names the first entry of the stream whose
\* fingerprint Remove cannot find: never added, or already removed for an
\* earlier entry of the stream.
C2_FirstUnmatched ==
    (/\ NoInfrastructureError
     /\ \E i \in 1..Len(stream) : NeverAdded(i))
    => /\ ret = [ok |-> FALSE, err |-> NoError]
       /\ StateError # NoStateError
       /\ StateError.msg = "Could not find entry"
       /\ DiagnosisOf(FirstUnmatched)

\* C2 witness: the never-added entry comes after an entry that matched, and
\* is the one diagnosed, in a form that differs from its normalized form.
C2_Witness ==
    /\ NoInfrastructureError
    /\ \E i \in 2..Len(stream) :
          /\ NeverAdded(i)
          /\ i = FirstUnmatched
          /\ DiagnosisOf(i)
          /\ StateError.entry # StateError.transformed
    /\ ret = [ok |-> FALSE, err |-> NoError]

\* the stream ran out with every entry matched and IsEmpty reported, without
\* failing, that keys are left
LeftoverReported ==
    /\ AfterVerify
    /\ last.op = "IsEmpty"
    /\ last.err = NoError
    /\ m.keys # {}

\* C3 as stated: in the leftover case Verify returns (true, err) with a
\* non-nil err.
C3_AsStated ==
    LeftoverReported => (ret.ok /\ ret.err # NoError)

\* C3 amended: in the leftover case Verify returns (false, nil).
C3_LeftoverShape ==
    LeftoverReported => ret = [ok |-> FALSE, err |-> NoError]

\* C3 witness: a leftover after a stream whose entries all matched.
C3_Witness ==
    /\ LeftoverReported
    /\ Relevant # {}
    /\ Cardinality(added) = 2

\* C4 Leftover detection: if an added entry's fingerprint is never produced
\* by the stream and no infrastructure error occurs, Verify does not return
\* (true, nil).
C4_LeftoverDetection ==
    (/\ NoInfrastructureError
     /\ \E e \in added :
           \A i \in Relevant : KeyOf(i).err # NoError \/ KeyOf(i).key # entryToKey(e).key)
    => ret # [ok |-> TRUE, err |-> NoError]

\* C4 witness: every stream entry matched and one added entry is left.
C4_Witness ==
    /\ NoInfrastructureError
    /\ last.op = "IsEmpty"
    /\ Relevant # {}
    /\ \A i \in 1..Len(stream) : ~Unmatched(i)
    /\ \E e \in added :
          \A i \in Relevant : KeyOf(i).key # entryToKey(e).key

\* C5 Whenever Verify returns (false, nil), StateError() is a non-nil
\* diagnosis.
C5_DiagnosisOnInvalid ==
    (VerifyReturned /\ ret = [ok |-> FALSE, err |-> NoError])
    => StateError # NoStateError

\* C6 An infrastructure failure (reader, fingerprinting, Remove other than
\* key-not-found, IsEmpty) makes Verify return (true, err) and leaves
\* StateError() nil.
C6_NoDiagnosisOnFailure ==
    (VerifyReturned /\ ret.err # NoError)
    => (ret.ok /\ StateError = NoStateError)

\* C7 Duplicate rejection: on the in-memory set, an Add whose entry encodes
\* like an entry added before fails with key-already-exists and leaves the
\* set as it was; an Add of a new fingerprint succeeds and grows the set by
\* exactly that key.
C7_DuplicateRejection ==
    [][(/\ backend = "memory"
        /\ calls' = Append(calls, "Add"))
       => LET dup == \E e \in added :
                        MarshalBinary(e).bytes = MarshalBinary(last'.entry).bytes
          IN  IF dup
              THEN /\ last'.err = errKeyAlreadyExists
                   /\ m' = m
                   /\ added' = added
              ELSE /\ last'.err = NoError
                   /\ last'.key \notin m.keys
                   /\ m'.keys = m.keys \cup {last'.key}
                   /\ Cardinality(m'.keys) = Cardinality(m.keys) + 1]_vars

\* C7 witness: an Add was rejected as a duplicate while the set held a key.
C7_Witness ==
    /\ backend = "memory"
    /\ last.op = "Add"
    /\ last.err = errKeyAlreadyExists
    /\ last.entry \in added
    /\ Cardinality(m.keys) = 1

\* the stream without the entries transformEntry ignores
Filtered(entries) == SelectSeq(entries, NotIgnored)

\* what a verification of the entries f, none of them ignored, against the
\* fingerprints keys comes to when nothing fails but fingerprinting
RECURSIVE Outcome(_, _)
Outcome(keys, f) ==
    IF f = <<>>
    THEN [ret |-> [ok |-> keys = {}, err |-> NoError], diag |-> NoStateError,
          keys |-> keys]
    ELSE LET n == transformEntry(Head(f)).entry
             k == entryToKey(n)
         IN  IF k.err # NoError
             THEN [ret |-> [ok |-> TRUE, err |-> k.err], diag |-> NoStateError,
                   keys |-> keys]
             ELSE IF k.key \notin keys
             THEN [ret |-> [ok |-> FALSE, err |-> NoError],
                   diag |-> CouldNotFindEntry(Head(f), n, k.key), keys |-> keys]
             ELSE Outcome(keys \ {k.key}, Tail(f))

\* C8 Ignore filtering: when neither the reader nor the temp set fails, what
\* Verify returns, StateError() and the keys left in the temp set are those of
\* the stream with every ignored entry deleted, wherever the ignored entries
\* stand; and Remove is called at most once per non-ignored entry read.
C8_IgnoreFiltering ==
    (AfterVerify /\ ret.err \notin {errRead, errBackend})
    => LET o == Outcome(AddedKeys, Filtered(stream)) IN
       /\ ret = o.ret
       /\ StateError = o.diag
       /\ m.keys = o.keys
       /\ NumCalls("Remove") <= Cardinality({i \in Relevant : i <= pos})

\* C8 witness: ignored entries stand before and between the entries that
\* match, and the verdict is that of the matching entries alone.
C8_Witness ==
    /\ AfterVerify
    /\ Len(stream) = 3
    /\ Relevant = {2}
    /\ stream[1] # stream[3]
    /\ added # {}
    /\ NumCalls("Remove") = 1
    /\ ret = [ok |-> TRUE, err |-> NoError]

\* C9 Verify never returns the key-not-found error: when Remove reports
\* key-not-found, Verify returns (false, nil).
C9_KeyNotFoundConsumed ==
    /\ ret.err # errKeyNotFound
    /\ (AfterVerify /\ last.op = "Remove" /\ last.err = errKeyNotFound)
       => ret = [ok |-> FALSE, err |-> NoError]

\* C9 witness: Remove reported key-not-found to Verify.
C9_Witness ==
    /\ AfterVerify
    /\ last.op = "Remove"
    /\ last.err = errKeyNotFound
    /\ Len(stream) = 2

----------------------------------------------------------------------------
(* C10 : System.verifyState under SpecVS *)

Phase(name) ==
    CASE name = "Open" -> 1
      [] name = "Add" -> 2
      [] name = "Remove" -> 3
      [] name = "IsEmpty" -> 4
      [] name = "Close" -> 5

\* C10 TempSet call protocol: at every point of every run of verifyState,
\* the calls made on the TempSet so far read Open, Add*, Remove*, IsEmpty,
\* Close or a prefix of it: Open comes first, nothing is called out of that
\* order, and Open, IsEmpty and Close are called at most once.
C10_CallProtocol ==
    /\ (calls # <<>>) => calls[1] = "Open"
    /\ \A i, j \in 1..Len(calls) : (i < j) => Phase(calls[i]) <= Phase(calls[j])
    /\ \A name \in {"Open", "IsEmpty", "Close"} : NumCalls(name) <= 1

\* C10 witness: a run that found the state invalid and panicked, having made
\* calls of all five kinds.
C10_Witness ==
    /\ pc = "finished"
    /\ exit = "panic"
    /\ NumCalls("Add") = 2
    /\ NumCalls("Remove") = 1
    /\ NumCalls("IsEmpty") = 1
    /\ calls[Len(calls)] = "Close"

----------------------------------------------------------------------------
(* C11 .. : further properties of StateVerifier under Spec *)

\* a TempSet.Remove of this Verify reported errKeyNotFound
KeyNotFoundReported ==
    \/ last.op = "Remove" /\ last.err = errKeyNotFound
    \/ StateError.msg = "Could not find entry"

\* C11 First mismatch stops the run: from the moment a TempSet.Remove of Verify
\* reports errKeyNotFound, the reader stays where it is (the entry read last
\* is the first unmatched entry of the stream), Remove was the last call
\* Verify made on the TempSet, IsEmpty is never called, Verify has returned
\* (false, nil) and the diagnosis is the one of that entry, whatever follows
\* it in the stream.
C11_FirstMismatchStops ==
    KeyNotFoundReported
    => /\ pos \in 1..Len(stream)
       /\ Unmatched(pos)
       /\ pos = FirstUnmatched
       /\ DiagnosisOf(pos)
       /\ ret = [ok |-> FALSE, err |-> NoError]
       /\ pc \in {"verified", "closed"}
       /\ NumCalls("IsEmpty") = 0
       /\ NumCalls("Remove") =
             Cardinality({i \in Relevant : i <= pos /\ KeyOf(i).err = NoError})
       /\ calls[Len(calls) - NumCalls("Close")] = "Remove"

\* C11 witness: the first entry of a stream of three is not found; behind it
\* come an entry that was added and another entry that was not, and the
\* verifier has been closed since.
C11_Witness ==
    /\ pc = "closed"
    /\ KeyNotFoundReported
    /\ pos = 1
    /\ Len(stream) = 3
    /\ \E i \in 2..3 : i \in Relevant /\ KeyOf(i).key \in AddedKeys
    /\ \E i \in 2..3 : NeverAdded(i)
    /\ NumCalls("Remove") = 1

----------------------------------------------------------------------------
(* C12 .. : further properties of System.verifyState under SpecVS *)

\* C12 Guaranteed release: verifyState calls TempSet.Close at most once and
\* only on its way out; when an invocation in which verifier.Open was called
\* (on the in-memory set Open cannot fail) has finished, whether it returned
\* an error, returned nil or panicked, Close was called exactly once, as the
\* last call on the TempSet, and the set holds no storage; Close on the
\* in-memory set returns nil and leaves the nil map whatever the set holds.
C12_GuaranteedRelease ==
    /\ NumCalls("Close") <= 1
    /\ (NumCalls("Close") = 1) => pc \in {"exiting", "finished"}
    /\ (pc = "finished" /\ NumCalls("Open") = 1)
       => /\ NumCalls("Close") = 1
          /\ calls[Len(calls)] = "Close"
          /\ last = Call("Close", EmptyEntry, 0, NoError)
          /\ m = NilMap
    /\ MemClose(m) = [m |-> NilMap, err |-> NoError]

\* C12 witness: verifyState added an account, Verify found the state invalid,
\* verifyState panicked and has finished with the set closed.
C12_Witness ==
    /\ pc = "finished"
    /\ exit = "panic"
    /\ added # {}
    /\ NumCalls("Close") = 1
    /\ m = NilMap

----------------------------------------------------------------------------
(* Concurrent invocations of System.verifyState on one System.  Each       *)
(* invocation has a verifier and a session of its own; what they share is  *)
(* System.stateVerificationRunning, which verifyState reads on line 17 and *)
(* writes on lines 22 and 29 without holding a lock.                       *)

Invocations == 1..NumInvocations

InitRace ==
    /\ m = NilMap
    /\ stateCorruptedError = NoStateError
    /\ stream = <<>>
    /\ pos = 0
    /\ backend = "memory"
    /\ pc = "idle"
    /\ ret = NoReturn
    /\ last = Call("none", EmptyEntry, 0, NoError)
    /\ added = {}
    /\ calls = <<>>
    /\ stateVerificationRunning = FALSE
    /\ rows = <<>>
    /\ account = <<>>
    /\ deferred = <<>>
    /\ exit = "none"
    /\ table = <<>>
    /\ invocations = [g \in Invocations |-> "idle"]
    /\ tally = NoTally

\* what no invocation of SpecRace changes
raceFrame == <<verifierVars, pc, rows, account, deferred, exit, table, tally>>

\* invocation g moves from one position to another
Move(g, from, to) ==
    /\ invocations[g] = from
    /\ invocations' = [invocations EXCEPT ![g] = to]

\* s.verifyState() is called
RaceCall(g) ==
    /\ Move(g, "idle", "called")
    /\ UNCHANGED <<stateVerificationRunning, raceFrame>>

\* verifyState, lines 17-20 : the flag is read as true, return nil
RaceBusy(g) ==
    /\ stateVerificationRunning
    /\ Move(g, "called", "skipped")
    /\ UNCHANGED <<stateVerificationRunning, raceFrame>>

\* verifyState, line 17 : the flag is read as false
RaceGuardPassed(g) ==
    /\ ~stateVerificationRunning
    /\ Move(g, "called", "passed")
    /\ UNCHANGED <<stateVerificationRunning, raceFrame>>

\* verifyState, lines 22-30 : the flag is set, its release deferred
RaceEnter(g) ==
    /\ Move(g, "passed", "running")
    /\ stateVerificationRunning' = TRUE
    /\ UNCHANGED raceFrame

\* verifyState, lines 32-105 : the body returns or panics
RaceBody(g) ==
    /\ Move(g, "running", "exiting")
    /\ UNCHANGED <<stateVerificationRunning, raceFrame>>

\* verifyState, lines 26-30 : the deferred func clears the flag
RaceRelease(g) ==
    /\ Move(g, "exiting", "finished")
    /\ stateVerificationRunning' = FALSE
    /\ UNCHANGED raceFrame

NextRace ==
    \E g \in Invocations :
        \/ RaceCall(g)
        \/ RaceBusy(g)
        \/ RaceGuardPassed(g)
        \/ RaceEnter(g)
        \/ RaceBody(g)
        \/ RaceRelease(g)

SpecRace == InitRace /\ [][NextRace]_vars

\* invocation g is past the guard of lines 17-20 and has not finished
PastGuard(g) == invocations[g] \in {"passed", "running", "exiting"}

\* C13 Mutual exclusion: at every moment of every interleaving of concurrent
\* verifyState invocations on one System, at most one invocation is past the
\* stateVerificationRunning guard.
C13_MutualExclusion == Cardinality({g \in Invocations : PastGuard(g)}) <= 1

----------------------------------------------------------------------------
(* C14 : addAccountsToStateVerifier under SpecVS *)

\* the accounts that have a row in accounts_signers
AccountsIn(t) == {t[i].account : i \in 1..Len(t)}

\* the weight of the master key row of account id, 0 when there is none
MasterWeightIn(t, id) ==
    IF \E i \in 1..Len(t) : t[i].account = id /\ t[i].signer = id
    THEN (CHOOSE r \in {t[i] : i \in 1..Len(t)} : r.account = id /\ r.signer = id).weight
    ELSE 0

\* the rows of account id that are not its master key, as signers
RECURSIVE SignersIn(_, _)
SignersIn(t, id) ==
    IF t = <<>> THEN <<>>
    ELSE (IF Head(t).account = id /\ Head(t).signer # id
          THEN <<Signer(Head(t).signer, Head(t).weight)>> ELSE <<>>)
         \o SignersIn(Tail(t), id)

\* the entry of account id: its master weight and all its signers, sorted
EntryFromRows(t, id) ==
    AccountEntry(id, <<MasterWeightIn(t, id), 0, 0, 0>>,
                 SortSignersByKey(SignersIn(t, id)))

\* addAccountsToStateVerifier returned nil and Verify has not started
AccountsAdded == pc = "verifying" /\ pos = 0 /\ ret = NoReturn

\* C14 One Add per account: addAccountsToStateVerifier calls verifier.Add only
\* for an account that has rows, with the entry that holds the account's
\* master weight and all its signers sorted by key (so with no rows it does
\* not call Add); when it has returned nil, Add was called once per distinct
\* account and the entries added are those of the accounts.
C14_OneAddPerAccount ==
    /\ (last.op = "Add")
       => last.entry \in {EntryFromRows(table, id) : id \in AccountsIn(table)}
    /\ AccountsAdded
       => /\ NumCalls("Add") = Cardinality(AccountsIn(table))
          /\ added = {EntryFromRows(table, id) : id \in AccountsIn(table)}

----------------------------------------------------------------------------
(* C15 : the verdict of a run of System.verifyState under SpecVS *)

\* C15 No abrupt termination on a verdict: no run of verifyState ends in a
\* panic; when Verify has returned (false, nil), verifyState returns to its
\* caller.
C15_NoAbruptTermination ==
    /\ exit # "panic"
    /\ (pc \in {"exiting", "finished"} /\ ret = [ok |-> FALSE, err |-> NoError])
       => exit \in {"nil", "error"}

----------------------------------------------------------------------------
(* C16 : who writes the diagnosis, under Spec *)

\* C16 Diagnosis frame: a step of Open (taken from "new"), of Add (from
\* "opened" to "opened") or of Close (to "closed") leaves the diagnosis as it
\* was, so StateError() after Close returns what it returned before Close;
\* the diagnosis changes only in the step in which Verify returns.
C16_DiagnosisFrame ==
    [][/\ (pc = "new" \/ pc' = "closed" \/ (pc = "opened" /\ pc' = "opened"))
          => stateCorruptedError' = stateCorruptedError
       /\ (stateCorruptedError' # stateCorruptedError)
          => (InVerify /\ pc' = "verified")]_vars

\* C16 witness: entries were added, Verify stored a diagnosis, and the
\* verifier has been closed with the diagnosis still there.
C16_Witness ==
    /\ pc = "closed"
    /\ added # {}
    /\ ret = [ok |-> FALSE, err |-> NoError]
    /\ StateError.msg = "Could not find entry"
    /\ last.op = "Close"

----------------------------------------------------------------------------
(* C17 : the verdict of Verify under Spec *)

\* the fingerprints of the non-ignored normalized stream entries
StreamKeys == {KeyOf(i).key : i \in Relevant}

\* every non-ignored normalized stream entry has a fingerprint
AllFingerprinted == \A i \in Relevant : KeyOf(i).err = NoError

\* no fingerprint occurs twice in the stream
NoRepeats == \A i, j \in Relevant : (i # j) => KeyOf(i).key # KeyOf(j).key

\* C17 Exact verdict: with the in-memory temp set, a reader that does not
\* fail and a stream whose non-ignored normalized entries all have a
\* fingerprint, Verify returns a nil error, and returns true exactly when the
\* fingerprints of those entries have no repeats and are, as a set, the added
\* fingerprints; when it returns false because an entry is not found (never
\* added, or a repeat of an added entry), the diagnosis names the first such
\* entry.
C17_ExactVerdict ==
    (/\ AfterVerify
     /\ backend = "memory"
     /\ ret.err # errRead
     /\ AllFingerprinted)
    => /\ ret.err = NoError
       /\ ret.ok <=> (NoRepeats /\ StreamKeys = AddedKeys)
       /\ (\E i \in Relevant : Unmatched(i))
          => /\ StateError.msg = "Could not find entry"
             /\ DiagnosisOf(FirstUnmatched)

\* C17 witness: the stream holds exactly the added fingerprints but repeats
\* one of them; Verify returned (false, nil) and the diagnosis names the
\* repeated entry.
C17_Witness ==
    /\ AfterVerify
    /\ backend = "memory"
    /\ AllFingerprinted
    /\ StreamKeys = AddedKeys
    /\ ~NoRepeats
    /\ ret = [ok |-> FALSE, err |-> NoError]
    /\ StateError.key \in AddedKeys
    /\ \E i, j \in Relevant : i < j /\ KeyOf(i) = KeyOf(j) /\ DiagnosisOf(j)

----------------------------------------------------------------------------
(* C18 : System.stateVerificationRunning under SpecVS *)

\* the release of the flag is among the deferred calls
ResetDeferred(d) == \E i \in 1..Len(d) : d[i] = "reset"

\* C18 Flag release: an invocation of verifyState that finds the flag true
\* returns nil at once, leaving the flag true and the verifier untouched; one
\* that finds it false sets it and defers its release; until the invocation
\* finishes the flag stays true with the release pending, and the step in
\* which it finishes, by a return or after the panic, leaves the flag false.
C18_FlagRelease ==
    [][/\ (pc = "idle" /\ stateVerificationRunning /\ pc' # pc)
          => /\ pc' = "finished"
             /\ exit' = "nil"
             /\ stateVerificationRunning'
             /\ UNCHANGED verifierVars
       /\ (pc = "idle" /\ ~stateVerificationRunning /\ pc' # pc)
          => (stateVerificationRunning' /\ ResetDeferred(deferred'))
       /\ (pc # "idle" /\ pc' # "finished")
          => (stateVerificationRunning' /\ ResetDeferred(deferred'))
       /\ (pc # "idle" /\ pc' = "finished")
          => (~stateVerificationRunning' /\ deferred' = <<>>)]_vars

\* C18 witness: an invocation that set the flag, found the state invalid and
\* panicked has finished, and the flag is false again.
C18_Witness ==
    /\ pc = "finished"
    /\ exit = "panic"
    /\ ret = [ok |-> FALSE, err |-> NoError]
    /\ ~stateVerificationRunning
    /\ deferred = <<>>

----------------------------------------------------------------------------
(* A MemoryStateVerifyTempSet used directly: its five methods called in any *)
(* order, also before Open and after Close.  A panic ends the caller.       *)

SetKeys == 1..MaxKey

InitSet ==
    /\ m = NilMap
    /\ stateCorruptedError = NoStateError
    /\ stream = <<>>
    /\ pos = 0
    /\ backend = "memory"
    /\ pc = "using"
    /\ ret = NoReturn
    /\ last = Call("none", EmptyEntry, 0, NoError)
    /\ added = {}
    /\ calls = <<>>
    /\ stateVerificationRunning = FALSE
    /\ rows = <<>>
    /\ account = <<>>
    /\ deferred = <<>>
    /\ exit = "none"
    /\ table = <<>>
    /\ invocations = <<>>
    /\ tally = NoTally

\* what no call on the set changes
setFrame == <<stateCorruptedError, stream, pos, backend, ret, added, systemVars,
              table, invocations>>

\* the caller makes one more call, method name with key
SetCall(name, key, err) ==
    /\ last' = Call(name, EmptyEntry, key, err)
    /\ calls' = Append(calls, name)

CanCall == pc = "using" /\ Len(calls) < MaxCalls

\* MemoryStateVerifyTempSet.Open
SetOpen ==
    /\ CanCall
    /\ LET r == MemOpen(m) IN m' = r.m /\ SetCall("Open", 0, r.err)
    /\ tally' = NoTally
    /\ UNCHANGED <<pc, setFrame>>

\* MemoryStateVerifyTempSet.Add
SetAdd(key) ==
    /\ CanCall
    /\ LET r == MemAdd(m, key) IN
       /\ m' = r.m
       /\ SetCall("Add", key, r.err)
       /\ pc' = IF r.panic THEN "panicked" ELSE pc
       /\ tally' = IF r.err = NoError /\ ~r.panic
                   THEN [tally EXCEPT !.adds = @ + 1] ELSE tally
    /\ UNCHANGED setFrame

\* MemoryStateVerifyTempSet.Remove
SetRemove(key) ==
    /\ CanCall
    /\ LET r == MemRemove(m, key) IN
       /\ m' = r.m
       /\ SetCall("Remove", key, r.err)
       /\ tally' = IF r.err = NoError
                   THEN [tally EXCEPT !.removes = @ + 1] ELSE tally
    /\ UNCHANGED <<pc, setFrame>>

\* MemoryStateVerifyTempSet.IsEmpty
SetIsEmpty ==
    /\ CanCall
    /\ SetCall("IsEmpty", 0, MemIsEmpty(m).err)
    /\ UNCHANGED <<m, pc, tally, setFrame>>

\* MemoryStateVerifyTempSet.Close
SetClose ==
    /\ CanCall
    /\ LET r == MemClose(m) IN m' = r.m /\ SetCall("Close", 0, r.err)
    /\ UNCHANGED <<pc, tally, setFrame>>

NextSet ==
    \/ SetOpen
    \/ \E key \in SetKeys : SetAdd(key)
    \/ \E key \in SetKeys : SetRemove(key)
    \/ SetIsEmpty
    \/ SetClose

SpecSet == InitSet /\ [][NextSet]_vars

\* C19 In-memory set algebra: on an opened MemoryStateVerifyTempSet, Remove
\* of a key the set does not hold fails with errKeyNotFound and leaves the set
\* as it is; Add of such a key followed by Remove of it both succeed and give
\* back the set as it was; IsEmpty answers true exactly when as many Adds as
\* Removes have succeeded since Open; and the set holds one key per
\* successful Add not yet undone by a successful Remove, none of them twice.
C19_SetAlgebra ==
    (~m.isNil)
    => /\ \A k \in SetKeys \ m.keys :
             /\ MemRemove(m, k) = [m |-> m, err |-> errKeyNotFound]
             /\ LET a == MemAdd(m, k) IN
                /\ a.err = NoError /\ ~a.panic
                /\ MemRemove(a.m, k) = [m |-> m, err |-> NoError]
       /\ MemIsEmpty(m) = [empty |-> (tally.adds = tally.removes), err |-> NoError]
       /\ Cardinality(m.keys) = tally.adds - tally.removes
       /\ (last.op = "Remove" /\ last.err = errKeyNotFound) => last.key \notin m.keys
       /\ (last.op = "Add" /\ last.err = NoError) => last.key \in m.keys

\* C19 witness: after Open a key was added, removed, added again, and a
\* Remove of the other key has just failed; one key is in the set.
C19_Witness ==
    /\ calls = <<"Open", "Add", "Remove", "Add", "Remove">>
    /\ tally = [adds |-> 2, removes |-> 1]
    /\ last = Call("Remove", EmptyEntry, 2, errKeyNotFound)
    /\ m = [isNil |-> FALSE, keys |-> {1}]

\* C20 Out-of-lifecycle calls: on a MemoryStateVerifyTempSet that was never
\* opened or has been closed, Remove returns errKeyNotFound and IsEmpty
\* returns (true, nil), neither panicking nor changing the set, and Add
\* panics; nothing else panics; and Open gives an empty set whatever the set
\* held, so a second Open without Close drops the keys added before.
C20_OutOfLifecycle ==
    /\ m.isNil
       => /\ m.keys = {}
          /\ MemIsEmpty(m) = [empty |-> TRUE, err |-> NoError]
          /\ \A k \in SetKeys :
                /\ MemRemove(m, k) = [m |-> m, err |-> errKeyNotFound]
                /\ MemAdd(m, k).panic
          /\ (last.op = "Remove") => last.err = errKeyNotFound
    /\ (pc = "panicked") <=> (last.op = "Add" /\ m.isNil)
    /\ MemOpen(m) = [m |-> [isNil |-> FALSE, keys |-> {}], err |-> NoError]
    /\ (last.op = "Open") => (m.keys = {} /\ ~m.isNil /\ tally = NoTally)

\* C20 witness: a key was added, a second Open dropped it, the set was closed
\* and an Add on the closed set has panicked.
C20_Witness ==
    /\ calls = <<"Open", "Add", "Open", "Close", "Add">>
    /\ pc = "panicked"
    /\ m = NilMap

====
